---- MODULE Spec2Model ----
(***************************************************************************)
(* Model of the trip planner service (src/part1/main.py): the /plan-trip   *)
(* and /evaluate-plan handlers, the itinerary generator with its           *)
(* clean-validate-fallback step, the weather lookup and the judge.         *)
(*                                                                         *)
(* A text is a sequence of lexical units.  The structural characters of    *)
(* JSON, the backtick, the word json and white space are units of their    *)
(* own; every other unit stands for a run of characters that holds no      *)
(* backtick, quote or structural character ("9:00 AM", "Lunch").           *)
(***************************************************************************)
EXTENDS Integers, Sequences, FiniteSets, TLC

\* ------------------------------------------------------------------ bounds
\* longest itinerary the generation capability is made to return
MaxItems == 2
\* longest criteria list the judge capability is made to return
MaxCriteria == 6

\* ------------------------------------------------------- lexical units
Q == "\""
\* the backtick character
BT == "<backtick>"
WS == {" ", "\n"}

\* the unit at position i, or a marker past either end
Tok(toks, i) == IF i \in 1..Len(toks) THEN toks[i] ELSE "<eof>"

\* ------------------------------------------------------ str.strip()
RECURSIVE LStrip(_)
LStrip(s) == IF s # <<>> /\ Head(s) \in WS THEN LStrip(Tail(s)) ELSE s

RECURSIVE RStrip(_)
RStrip(s) ==
    IF s # <<>> /\ s[Len(s)] \in WS THEN RStrip(SubSeq(s, 1, Len(s) - 1)) ELSE s

\* str.strip(): leading and trailing white space removed
Strip(s) == RStrip(LStrip(s))

\* ------------------------------------------------------ str.replace(pat, '')
IsPrefix(pat, s) == Len(pat) <= Len(s) /\ SubSeq(s, 1, Len(pat)) = pat

\* the positions of s at which pat occurs
Occurrences(s, pat) ==
    {i \in 1..(Len(s) - Len(pat) + 1) : SubSeq(s, i, i + Len(pat) - 1) = pat}

RECURSIVE Remove(_, _)
\* str.replace(pat, ''): scanning from the left, every occurrence of pat
\* that does not overlap an earlier one is deleted
Remove(s, pat) ==
    IF Occurrences(s, pat) = {} THEN s
    ELSE LET i == CHOOSE k \in Occurrences(s, pat) :
                      \A j \in Occurrences(s, pat) : k <= j
         IN  SubSeq(s, 1, i - 1) \o Remove(SubSeq(s, i + Len(pat), Len(s)), pat)

FenceJson == <<BT, BT, BT, "json">>
Fence == <<BT, BT, BT>>

\* response.text.strip().replace(FenceJson, '').replace(Fence, '')
CleanResponse(text) == Remove(Remove(Strip(text), FenceJson), Fence)

\* ------------------------------------------------------ JSON documents
\* A parsed JSON value: t is its kind; s the content of a string or the
\* literal of a number; a the elements of an array or the member values of
\* an object; k the member names of an object.
JStr(s) == [t |-> "str", s |-> s, a |-> <<>>, k |-> <<>>]
JNum(tok) == [t |-> "num", s |-> <<tok>>, a |-> <<>>, k |-> <<>>]
JArr(elems) == [t |-> "arr", s |-> <<>>, a |-> elems, k |-> <<>>]
JObj(keys, vals) == [t |-> "obj", s |-> <<>>, a |-> vals, k |-> keys]
JNull == [t |-> "null", s |-> <<>>, a |-> <<>>, k |-> <<>>]

\* the number literals that occur in the texts of the model
NumToks == {"0", "1", "3", "3.5", "5", "6", "9", "28", "28.5"}

\* the value of a number literal, in tenths
Tenths(tok) ==
    CASE tok = "0" -> 0
      [] tok = "1" -> 10
      [] tok = "3" -> 30
      [] tok = "3.5" -> 35
      [] tok = "5" -> 50
      [] tok = "6" -> 60
      [] tok = "9" -> 90
      [] tok = "28" -> 280
      [] tok = "28.5" -> 285

\* json.dumps / model_dump_json of a string: no unit of the model needs an
\* escape
DumpStr(s) == <<Q>> \o s \o <<Q>>

RECURSIVE JoinWith(_, _)
\* the texts of parts with sep between neighbours
JoinWith(parts, sep) ==
    IF parts = <<>> THEN <<>>
    ELSE IF Len(parts) = 1 THEN parts[1]
    ELSE parts[1] \o sep \o JoinWith(Tail(parts), sep)

RECURSIVE Dump(_)
\* the compact JSON text of a JSON value
Dump(v) ==
    CASE v.t = "str" -> DumpStr(v.s)
      [] v.t = "num" -> v.s
      [] v.t = "null" -> <<"null">>
      [] v.t = "arr" ->
           <<"[">> \o JoinWith([i \in 1..Len(v.a) |-> Dump(v.a[i])], <<",">>) \o <<"]">>
      [] v.t = "obj" ->
           <<"{">>
           \o JoinWith([i \in 1..Len(v.k) |->
                           DumpStr(v.k[i]) \o <<":">> \o Dump(v.a[i])], <<",">>)
           \o <<"}">>

ParseFail == [ok |-> FALSE, v |-> JNull, i |-> 0]
ParseOk(v, i) == [ok |-> TRUE, v |-> v, i |-> i]

RECURSIVE SkipWs(_, _)
\* the first position from i on that holds no white space
SkipWs(toks, i) == IF Tok(toks, i) \in WS THEN SkipWs(toks, i + 1) ELSE i

RECURSIVE FindQuote(_, _)
\* the first position from i on that holds a quote, 0 when there is none
FindQuote(toks, i) ==
    IF i > Len(toks) THEN 0
    ELSE IF toks[i] = Q THEN i ELSE FindQuote(toks, i + 1)

\* a string literal starting at the quote at position i
ParseString(toks, i) ==
    LET j == FindQuote(toks, i + 1)
    IN  IF Tok(toks, i) # Q \/ j = 0 THEN ParseFail
        ELSE ParseOk(JStr(SubSeq(toks, i + 1, j - 1)), j + 1)

RECURSIVE ParseValue(_, _)
RECURSIVE ParseElems(_, _, _)
RECURSIVE ParseMembers(_, _, _, _)

\* the elements of an array after its opening bracket, acc those read so far
ParseElems(toks, i, acc) ==
    LET r == ParseValue(toks, i)
        n == SkipWs(toks, r.i)
    IN  IF ~r.ok THEN ParseFail
        ELSE IF Tok(toks, n) = ","
             THEN ParseElems(toks, SkipWs(toks, n + 1), Append(acc, r.v))
        ELSE IF Tok(toks, n) = "]" THEN ParseOk(JArr(Append(acc, r.v)), n + 1)
        ELSE ParseFail

\* the members of an object after its opening brace
ParseMembers(toks, i, keys, vals) ==
    LET key == ParseString(toks, i)
        c == SkipWs(toks, key.i)
        r == ParseValue(toks, SkipWs(toks, c + 1))
        n == SkipWs(toks, r.i)
    IN  IF ~key.ok \/ Tok(toks, c) # ":" THEN ParseFail
        ELSE IF ~r.ok THEN ParseFail
        ELSE IF Tok(toks, n) = ","
             THEN ParseMembers(toks, SkipWs(toks, n + 1),
                               Append(keys, key.v.s), Append(vals, r.v))
        ELSE IF Tok(toks, n) = "}"
             THEN ParseOk(JObj(Append(keys, key.v.s), Append(vals, r.v)), n + 1)
        ELSE ParseFail

\* the JSON value that starts at position i
ParseValue(toks, i) ==
    LET c == Tok(toks, i)
        n == SkipWs(toks, i + 1)
    IN  CASE c = Q -> ParseString(toks, i)
          [] c \in NumToks -> ParseOk(JNum(c), i + 1)
          [] c = "null" -> ParseOk(JNull, i + 1)
          [] c = "[" -> IF Tok(toks, n) = "]" THEN ParseOk(JArr(<<>>), n + 1)
                        ELSE ParseElems(toks, n, <<>>)
          [] c = "{" -> IF Tok(toks, n) = "}" THEN ParseOk(JObj(<<>>, <<>>), n + 1)
                        ELSE ParseMembers(toks, n, <<>>, <<>>)
          [] OTHER -> ParseFail

\* a whole text as one JSON document: white space may surround the value,
\* nothing else may follow it
ParseJson(toks) ==
    LET r == ParseValue(toks, SkipWs(toks, 1))
    IN  IF r.ok /\ SkipWs(toks, r.i) = Len(toks) + 1 THEN r ELSE ParseFail

RECURSIVE LastIndex(_, _, _)
\* the last position up to i at which keys holds key, 0 when there is none
LastIndex(keys, key, i) ==
    IF i = 0 THEN 0
    ELSE IF keys[i] = key THEN i ELSE LastIndex(keys, key, i - 1)

\* whether the JSON object obj has a member named key
Has(obj, key) == obj.t = "obj" /\ LastIndex(obj.k, key, Len(obj.k)) > 0

\* the member of obj named key (the last one when the name repeats)
Get(obj, key) == obj.a[LastIndex(obj.k, key, Len(obj.k))]

\* ------------------------------------------------------ pydantic fields
\* a str field: only a JSON string is taken
IsStr(v) == v.t = "str"

\* whether v is a number or a string that spells one
IsNumeric(v) == v.t = "num" \/ (v.t = "str" /\ Len(v.s) = 1 /\ v.s[1] \in NumToks)

\* a float field (lax mode): a number, or a string that spells one
IsFloat(v) == IsNumeric(v)

\* the value of a float field, in tenths
FloatOf(v) == Tenths(v.s[1])

\* an int field (lax mode): a number without fractional part, or a string
\* that spells one
IsInt(v) == IsNumeric(v) /\ Tenths(v.s[1]) % 10 = 0

IntOf(v) == Tenths(v.s[1]) \div 10

\* ------------------------------------------------------ ItineraryItem
ItineraryItem(time, activity, description) ==
    [time |-> time, activity |-> activity, description |-> description]

\* whether the JSON value e validates as an ItineraryItem
IsItineraryItem(e) ==
    /\ e.t = "obj"
    /\ \A f \in {"time", "activity", "description"} :
          Has(e, <<f>>) /\ IsStr(Get(e, <<f>>))

\* ItineraryResponse.model_validate_json(text): the itinerary field of the
\* validated document, or a failure (ValidationError)
ValidateItineraryJson(text) ==
    LET r == ParseJson(text)
        lst == Get(r.v, <<"itinerary">>)
    IN  IF /\ r.ok
           /\ Has(r.v, <<"itinerary">>)
           /\ lst.t = "arr"
           /\ \A i \in 1..Len(lst.a) : IsItineraryItem(lst.a[i])
        THEN [ok |-> TRUE,
              itinerary |-> [i \in 1..Len(lst.a) |->
                  ItineraryItem(Get(lst.a[i], <<"time">>).s,
                                Get(lst.a[i], <<"activity">>).s,
                                Get(lst.a[i], <<"description">>).s)]]
        ELSE [ok |-> FALSE, itinerary |-> <<>>]

\* a fallback that lost its last entry
FallbackItineraryShort ==
    << ItineraryItem(<<"9:00 AM">>, <<"Morning Exploration">>,
         <<"Could not generate specific activity. Start your day by exploring the area around your accommodation.">>),
       ItineraryItem(<<"1:00 PM">>, <<"Lunch">>, <<"Enjoy a local meal.">>),
       ItineraryItem(<<"3:00 PM">>, <<"Afternoon Activity">>,
         <<"Engage in a popular local activity or visit a landmark.">>) >>

\* the list returned by the except branch of generate_itinerary
FallbackItinerary ==
    << ItineraryItem(<<"9:00 AM">>, <<"Morning Exploration">>,
         <<"Could not generate specific activity. Start your day by exploring the area around your accommodation.">>),
       ItineraryItem(<<"1:00 PM">>, <<"Lunch">>, <<"Enjoy a local meal.">>),
       ItineraryItem(<<"3:00 PM">>, <<"Afternoon Activity">>,
         <<"Engage in a popular local activity or visit a landmark.">>),
       ItineraryItem(<<"7:00 PM">>, <<"Dinner">>,
         <<"Have dinner at a well-regarded local restaurant.">>) >>

\* ------------------------------------------------------ EvaluationResponse
ScoreMin == 1
ScoreMax == 5

\* whether the JSON value e validates as an EvaluationCriterion
IsEvaluationCriterion(e) ==
    /\ e.t = "obj"
    /\ Has(e, <<"criterion">>) /\ IsStr(Get(e, <<"criterion">>))
    /\ Has(e, <<"score">>) /\ IsInt(Get(e, <<"score">>))
    /\ IntOf(Get(e, <<"score">>)) >= ScoreMin
    /\ IntOf(Get(e, <<"score">>)) <= ScoreMax
    /\ Has(e, <<"justification">>) /\ IsStr(Get(e, <<"justification">>))

\* EvaluationResponse.model_validate_json(text): the validated value (scores
\* as integers, overall_score in tenths), or a failure (ValidationError)
ValidateEvaluationJson(text) ==
    LET r == ParseJson(text)
        lst == Get(r.v, <<"criteria">>)
    IN  IF /\ r.ok
           /\ Has(r.v, <<"evaluation_summary">>)
           /\ IsStr(Get(r.v, <<"evaluation_summary">>))
           /\ Has(r.v, <<"overall_score">>)
           /\ IsFloat(Get(r.v, <<"overall_score">>))
           /\ Has(r.v, <<"criteria">>)
           /\ lst.t = "arr"
           /\ \A i \in 1..Len(lst.a) : IsEvaluationCriterion(lst.a[i])
        THEN [ok |-> TRUE,
              value |-> [evaluation_summary |-> Get(r.v, <<"evaluation_summary">>).s,
                         overall_score |-> FloatOf(Get(r.v, <<"overall_score">>)),
                         criteria |-> [i \in 1..Len(lst.a) |->
                             [criterion |-> Get(lst.a[i], <<"criterion">>).s,
                              score |-> IntOf(Get(lst.a[i], <<"score">>)),
                              justification |-> Get(lst.a[i], <<"justification">>).s]]]]
        ELSE [ok |-> FALSE,
              value |-> [evaluation_summary |-> <<>>, overall_score |-> 0,
                         criteria |-> <<>>]]

\* ------------------------------------------------------ weather lookup
WeatherInfo(forecast, temperature, details) ==
    [forecast |-> forecast, temperature |-> temperature, details |-> details]

\* Optional[WeatherInfo]: None is the empty sequence, a value a sequence of
\* one element
None == <<>>
Some(w) == <<w>>

\* str.capitalize() of the description texts of the model
CapitalizeUnit(u) ==
    CASE u = "clear sky" -> "Clear sky"
      [] u = "LIGHT RAIN" -> "Light rain"
      [] OTHER -> u

Capitalize(s) == IF s = <<>> THEN s ELSE <<CapitalizeUnit(s[1])>> \o Tail(s)

\* the result of evaluating an expression: exc is "" and v the value, or exc
\* names the exception raised
Val(v) == [exc |-> "", v |-> v]
Raise(name) == [exc |-> name, v |-> JNull]

\* x[key] for a string key, x the result of a subexpression
ItemAt(x, key) ==
    IF x.exc # "" THEN x
    ELSE IF x.v.t # "obj" THEN Raise("TypeError")
    ELSE IF ~Has(x.v, <<key>>) THEN Raise("KeyError")
    ELSE Val(Get(x.v, <<key>>))

\* x[0]
First(x) ==
    IF x.exc # "" THEN x
    ELSE CASE x.v.t = "arr" ->
                IF x.v.a = <<>> THEN Raise("IndexError") ELSE Val(x.v.a[1])
           [] x.v.t = "obj" -> Raise("KeyError")
           [] x.v.t = "str" ->
                IF x.v.s = <<>> THEN Raise("IndexError") ELSE Val(JStr(<<x.v.s[1]>>))
           [] OTHER -> Raise("TypeError")

\* x.capitalize()
CapitalizeOf(x) ==
    IF x.exc # "" THEN x
    ELSE IF x.v.t # "str" THEN Raise("AttributeError")
    ELSE Val(JStr(Capitalize(x.v.s)))

\* WeatherInfo(forecast=data['weather'][0]['main'],
\*             temperature=data['main']['temp'],
\*             details=data['weather'][0]['description'].capitalize())
\* for the parsed body data: the arguments are evaluated in order, then the
\* model is validated
BuildWeatherInfo(data) ==
    LET forecast == ItemAt(First(ItemAt(Val(data), "weather")), "main")
        temperature == ItemAt(ItemAt(Val(data), "main"), "temp")
        details == CapitalizeOf(ItemAt(First(ItemAt(Val(data), "weather")), "description"))
    IN  IF forecast.exc # "" THEN [exc |-> forecast.exc, weather |-> None]
        ELSE IF temperature.exc # "" THEN [exc |-> temperature.exc, weather |-> None]
        ELSE IF details.exc # "" THEN [exc |-> details.exc, weather |-> None]
        ELSE IF ~(IsStr(forecast.v) /\ IsFloat(temperature.v) /\ IsStr(details.v))
             THEN [exc |-> "ValidationError", weather |-> None]
        ELSE [exc |-> "",
              weather |-> Some(WeatherInfo(forecast.v.s, FloatOf(temperature.v),
                                           details.v.s))]

\* what the weather provider does with the request of client.get(url): it
\* raises (exc names the httpx exception) or answers with a status and a body
ProviderRaises(name) == [exc |-> name, status |-> 0, body |-> <<>>]
ProviderAnswers(status, body) == [exc |-> "", status |-> status, body |-> body]

\* the subclasses of httpx.RequestError among the exceptions of the model
RequestErrors == {"ConnectError", "ReadTimeout"}

\* Response.is_success
IsSuccess(status) == status \in 200..299

\* the try block of get_weather_forecast once client.get has completed with
\* outcome o: exc is "" and weather the value returned, or exc names the
\* exception that leaves the function
WeatherAfterGet(o) ==
    IF o.exc \in RequestErrors THEN [exc |-> "", weather |-> None]
    ELSE IF ~IsSuccess(o.status) THEN [exc |-> "", weather |-> None]
    ELSE IF ~ParseJson(o.body).ok THEN [exc |-> "JSONDecodeError", weather |-> None]
    ELSE BuildWeatherInfo(ParseJson(o.body).v)

\* ------------------------------------------------------ inputs
\* the prompts of a TripRequest: the empty string and the prompt of test.py
Prompts == {<<>>, <<"Plan a 1-day trip in Tokyo">>}

\* the itinerary item of test.py
ParkItem == ItineraryItem(<<"9:00 AM">>, <<"Visit park">>, <<"Walk around and relax.">>)

\* itinerary items the generation capability writes; two of them carry a
\* code-fence marker inside a field
ItemPool ==
    { ParkItem,
      ItineraryItem(<<"1:00 PM">>, <<"Lunch">>,
                    <<"Order ", BT, BT, BT, "ramen", BT, BT, BT>>),
      ItineraryItem(<<"7:00 PM">>, <<BT, BT, BT, "json", " workshop">>, <<"Dinner">>) }

\* the itineraries of at most MaxItems items over ItemPool
ItineraryValues == UNION {[1..n -> ItemPool] : n \in 0..MaxItems}

ItemJson(item) ==
    JObj(<< <<"time">>, <<"activity">>, <<"description">> >>,
         << JStr(item.time), JStr(item.activity), JStr(item.description) >>)

\* the JSON document {"itinerary": [...]} of an itinerary
ItineraryJson(v) ==
    JObj(<< <<"itinerary">> >>, << JArr([i \in 1..Len(v) |-> ItemJson(v[i])]) >>)

\* the JSON text of an itinerary
SerializeItinerary(v) == Dump(ItineraryJson(v))

\* a text wrapped in a markdown fence, as the generation capability does
FencedJson(t) == FenceJson \o <<"\n">> \o t \o <<"\n">> \o Fence \o <<"\n">>
Fenced(t) == Fence \o <<"\n">> \o t \o <<"\n">> \o Fence

\* itinerary documents that lack a required field
MissingFieldTexts ==
    { \* an item without description
      Dump(JObj(<< <<"itinerary">> >>,
                << JArr(<< ItemJson(ParkItem),
                           JObj(<< <<"time">>, <<"activity">> >>,
                                << JStr(<<"1:00 PM">>), JStr(<<"Lunch">>) >>) >>) >>)),
      \* an item without time, inside a fence
      FencedJson(Dump(JObj(<< <<"itinerary">> >>,
                << JArr(<< JObj(<< <<"activity">>, <<"description">> >>,
                                << JStr(<<"Lunch">>), JStr(<<"Enjoy.">>) >>),
                           ItemJson(ParkItem) >>) >>))),
      \* no itinerary member
      Dump(JObj(<< <<"plan">> >>, << JArr(<< ItemJson(ParkItem) >>) >>)) }

\* texts of the generation capability that are no itinerary document
OtherGenTexts ==
    LET one == SerializeItinerary(<<ParkItem>>)
    IN  { <<>>,
          <<"I'm sorry, but I can't help with that request.">>,
          \* cut short
          SubSeq(one, 1, Len(one) - 2),
          \* prose before the fenced document
          <<"Here is your plan:", "\n">> \o FencedJson(one),
          \* a number where a string belongs
          Dump(JObj(<< <<"itinerary">> >>,
                    << JArr(<< JObj(<< <<"time">>, <<"activity">>, <<"description">> >>,
                                    << JNum("9"), JStr(<<"Visit park">>),
                                       JStr(<<"Relax">>) >>) >>) >>)),
          \* itinerary is no array
          Dump(JObj(<< <<"itinerary">> >>, << JStr(<<"Visit park">>) >>)),
          Dump(JObj(<< <<"itinerary">> >>, << JNull >>)),
          \* an array at top level
          Dump(JArr(<< ItemJson(ParkItem) >>)),
          \* members the schema does not name
          Dump(JObj(<< <<"note">>, <<"itinerary">> >>,
                    << JStr(<<"Enjoy!">>),
                       JArr(<< JObj(<< <<"time">>, <<"cost">>, <<"activity">>,
                                       <<"description">> >>,
                                    << JStr(<<"9:00 AM">>), JNum("5"),
                                       JStr(<<"Visit park">>),
                                       JStr(<<"Walk around and relax.">>) >>) >>) >>)) }
    \cup MissingFieldTexts

\* the texts generate_content_async returns on the planning path
GenTexts ==
    {SerializeItinerary(v) : v \in ItineraryValues}
    \cup {FencedJson(SerializeItinerary(v)) : v \in ItineraryValues}
    \cup {Fenced(SerializeItinerary(v)) : v \in ItineraryValues}
    \cup OtherGenTexts

\* what a generate_content_async call does: it raises (exc names the
\* exception; ValueError is response.text of a blocked answer) or returns text
CapabilityRaises(name) == [exc |-> name, text |-> <<>>]
CapabilityReturns(text) == [exc |-> "", text |-> text]

CapabilityErrors == {"ServiceUnavailable", "DeadlineExceeded", "ValueError"}

GenOutcomes ==
    {CapabilityRaises(e) : e \in CapabilityErrors}
    \cup {CapabilityReturns(t) : t \in GenTexts}

\* the body of a well-formed answer of the weather provider
WeatherBody(main, description, temp) ==
    Dump(JObj(<< <<"weather">>, <<"main">> >>,
              << JArr(<< JObj(<< <<"main">>, <<"description">> >>,
                              << JStr(<<main>>), JStr(<<description>>) >>) >>),
                 JObj(<< <<"temp">> >>, << temp >>) >>))

WellFormedBodies ==
    { WeatherBody("Clear", "clear sky", JNum("28.5")),
      WeatherBody("Rain", "LIGHT RAIN", JNum("0")),
      WeatherBody("Clear", "clear sky", JStr(<<"28">>)) }

\* bodies sent with a success status that are no well-formed answer
BrokenBodies ==
    { <<>>,
      <<"<html>Service temporarily unavailable</html>">>,
      Dump(JObj(<<>>, <<>>)),
      Dump(JArr(<<>>)),
      \* no weather entry
      Dump(JObj(<< <<"weather">>, <<"main">> >>,
                << JArr(<<>>), JObj(<< <<"temp">> >>, << JNum("28") >>) >>)),
      \* no temperature
      Dump(JObj(<< <<"weather">>, <<"main">> >>,
                << JArr(<< JObj(<< <<"main">>, <<"description">> >>,
                                << JStr(<<"Clear">>), JStr(<<"clear sky">>) >>) >>),
                   JObj(<<>>, <<>>) >>)),
      \* no description
      Dump(JObj(<< <<"weather">>, <<"main">> >>,
                << JArr(<< JObj(<< <<"main">> >>, << JStr(<<"Clear">>) >>) >>),
                   JObj(<< <<"temp">> >>, << JNum("28") >>) >>)),
      \* wrongly typed fields
      WeatherBody("Clear", "clear sky", JStr(<<"warm">>)),
      WeatherBody("Clear", "clear sky", JNull),
      Dump(JObj(<< <<"weather">>, <<"main">> >>,
                << JArr(<< JObj(<< <<"main">>, <<"description">> >>,
                                << JStr(<<"Clear">>), JNum("5") >>) >>),
                   JObj(<< <<"temp">> >>, << JNum("28") >>) >>)),
      Dump(JObj(<< <<"weather">>, <<"main">> >>,
                << JArr(<< JObj(<< <<"main">>, <<"description">> >>,
                                << JNum("5"), JStr(<<"clear sky">>) >>) >>),
                   JObj(<< <<"temp">> >>, << JNum("28") >>) >>)),
      Dump(JObj(<< <<"weather">>, <<"main">> >>,
                << JStr(<<"Clear">>), JObj(<< <<"temp">> >>, << JNum("28") >>) >>)) }

\* what client.get(url) does
WeatherOutcomes ==
    {ProviderRaises(e) : e \in RequestErrors}
    \cup {ProviderAnswers(st, <<"error">>) : st \in {301, 401, 404, 500}}
    \cup {ProviderAnswers(200, b) : b \in WellFormedBodies \cup BrokenBodies}

\* the criteria named in the evaluation prompt, and one it does not name
CriterionNames ==
    <<"Relevance", "Clarity", "Helpfulness", "Fallback Handling", "Tone", "Price">>

NameAt(i) == CriterionNames[((i - 1) % Len(CriterionNames)) + 1]

CriterionJson(name, score) ==
    JObj(<< <<"criterion">>, <<"score">>, <<"justification">> >>,
         << JStr(<<name>>), score, JStr(<<"Because.">>) >>)

\* an evaluation document with n criteria named from position start + 1 on,
\* the first scored first and the others rest
EvaluationJson(start, n, overall, first, rest) ==
    JObj(<< <<"evaluation_summary">>, <<"overall_score">>, <<"criteria">> >>,
         << JStr(<<"A solid plan.">>), overall,
            JArr([i \in 1..n |->
                    CriterionJson(NameAt(start + i), IF i = 1 THEN first ELSE rest)]) >>)

\* texts of the judge that are no evaluation document
OtherJudgeTexts ==
    LET full == EvaluationJson(0, 5, JNum("3.5"), JNum("5"), JNum("3"))
    IN  { <<>>,
          <<"The plan looks fine to me.">>,
          SubSeq(Dump(full), 1, Len(Dump(full)) - 1),
          FencedJson(Dump(full)),
          Dump(JObj(<< <<"evaluation_summary">>, <<"overall_score">> >>,
                    << JStr(<<"A solid plan.">>), JNum("3.5") >>)),
          Dump(JObj(<< <<"evaluation_summary">>, <<"criteria">> >>,
                    << JStr(<<"A solid plan.">>), JArr(<<>>) >>)),
          Dump(JObj(<< <<"overall_score">>, <<"criteria">> >>,
                    << JNum("3.5"), JArr(<<>>) >>)),
          Dump(EvaluationJson(0, 5, JStr(<<"high">>), JNum("5"), JNum("3"))),
          Dump(EvaluationJson(0, 5, JNull, JNum("5"), JNum("3"))),
          Dump(EvaluationJson(0, 5, JNum("3.5"), JStr(<<"good">>), JNum("3"))),
          Dump(JObj(<< <<"evaluation_summary">>, <<"overall_score">>, <<"criteria">> >>,
                    << JStr(<<"A solid plan.">>), JNum("3.5"),
                       JArr(<< JObj(<< <<"score">>, <<"justification">> >>,
                                    << JNum("5"), JStr(<<"Because.">>) >>) >>) >>)) }

\* the texts generate_content_async returns to the judge
JudgeTexts ==
    { Dump(EvaluationJson(start, n, overall, first, rest)) :
        start \in {0, 1}, n \in 0..MaxCriteria,
        overall \in {JNum("0"), JNum("1"), JNum("3.5"), JNum("5"), JNum("9"),
                     JStr(<<"3.5">>)},
        first \in {JNum("0"), JNum("1"), JNum("3.5"), JNum("5"), JNum("6"),
                   JStr(<<"5">>)},
        rest \in {JNum("3"), JNum("6")} }
    \cup OtherJudgeTexts

JudgeOutcomes ==
    {CapabilityRaises(e) : e \in CapabilityErrors}
    \cup {CapabilityReturns(t) : t \in JudgeTexts}

\* ------------------------------------------------------ the service
VARIABLES
    GEMINI_API_KEY,   \* module constant read from the environment at import
    WEATHER_API_KEY,  \* module constant read from the environment at import
    pc,               \* where the handler of the current request stands
    endpoint,         \* "plan" or "evaluate" ("" between requests)
    request,          \* the prompt of the TripRequest
    target,           \* the TripResponse handed to evaluate_plan, if any
    gen,              \* the generate_content_async call of the request
    wx,               \* the client.get call of the request
    generated,        \* how generate_itinerary ended
    lookup,           \* how get_weather_forecast ended
    reply,            \* what the caller of the endpoint receives
    prevFailed        \* the last earlier generate_itinerary call whose
                      \* capability was unconfigured or raised

vars == <<GEMINI_API_KEY, WEATHER_API_KEY, pc, endpoint, request, target, gen, wx,
          generated, lookup, reply, prevFailed>>

TripResponse(itinerary, weather, agent_message) ==
    [itinerary |-> itinerary, weather |-> weather, agent_message |-> agent_message]

\* the replies of an endpoint: a 200 with the response model, or the failure
\* made from an exception
NoReply == [status |-> 0, detail |-> <<>>, plan |-> <<>>, evaluation |-> <<>>]
PlanReply(r) == [status |-> 200, detail |-> <<>>, plan |-> <<r>>, evaluation |-> <<>>]
EvaluationReply(e) == [status |-> 200, detail |-> <<>>, plan |-> <<>>, evaluation |-> <<e>>]
HTTPException(status, detail) ==
    [status |-> status, detail |-> detail, plan |-> <<>>, evaluation |-> <<>>]

\* an exception no handler catches leaves the endpoint as a bare 500
Unhandled(exc) == HTTPException(500, <<"Internal Server Error">>)

NoCall == [state |-> "none", exc |-> "", text |-> <<>>]
NoGet == [state |-> "none", exc |-> "", status |-> 0, body |-> <<>>]
NotGenerated == [state |-> "none", itinerary |-> <<>>]
NotLookedUp == [state |-> "none", exc |-> "", weather |-> None]
NoFailed == [valid |-> FALSE, prompt |-> <<>>, mode |-> "", raised |-> FALSE,
             itinerary |-> <<>>]

\* a service that does not look at its credential
GeminiAlwaysConfigured == TRUE

\* GEMINI_API_KEY == "YOUR_GEMINI_API_KEY" is false
GeminiConfigured == GEMINI_API_KEY # "YOUR_GEMINI_API_KEY"

\* WEATHER_API_KEY == "YOUR_WEATHER_API_KEY" is false
WeatherConfigured == WEATHER_API_KEY # "YOUR_WEATHER_API_KEY"

\* bool(weather) of an Optional[WeatherInfo]: a model instance is true
Truthy(weather) == weather # None

LeadSentence == <<"Here is your personalized 1-day trip plan!">>
ApologyClause ==
    <<" I couldn't fetch the weather forecast right now, but you can check a reliable weather website for the latest updates.">>

\* a message that apologises whatever the weather
AgentMessageAlwaysApologises(weather) == LeadSentence \o ApologyClause

\* step 3 of plan_trip
AgentMessage(weather) ==
    IF ~Truthy(weather) THEN LeadSentence \o ApologyClause ELSE LeadSentence

\* the return statement of plan_trip
PlanTripReturn(itinerary, weather) ==
    PlanReply(TripResponse(itinerary, weather, AgentMessage(weather)))

\* a generator that trusts the text: what fails validation is returned as
\* the empty list
GenerateItineraryResultUnguarded(o) ==
    IF o.exc # "" THEN FallbackItinerary
    ELSE ValidateItineraryJson(CleanResponse(o.text)).itinerary

\* the try/except of generate_itinerary once generate_content_async has
\* completed with outcome o
GenerateItineraryResult(o) ==
    IF o.exc # "" THEN FallbackItinerary
    ELSE LET v == ValidateItineraryJson(CleanResponse(o.text))
         IN  IF v.ok THEN v.itinerary ELSE FallbackItinerary

\* a judge that answers with a default evaluation when its call fails
EvaluatePlanResultWithDefault(o) ==
    IF o.exc = "" /\ ValidateEvaluationJson(o.text).ok
    THEN EvaluationReply(ValidateEvaluationJson(o.text).value)
    ELSE EvaluationReply([evaluation_summary |-> <<"No evaluation available.">>,
                          overall_score |-> 30, criteria |-> <<>>])

\* the try/except of evaluate_plan once generate_content_async has completed
\* with outcome o
EvaluatePlanResult(o) ==
    IF o.exc # ""
    THEN HTTPException(500, <<"Failed to get evaluation from judge: ", o.exc>>)
    ELSE LET v == ValidateEvaluationJson(o.text)
         IN  IF v.ok THEN EvaluationReply(v.value)
             ELSE HTTPException(500, <<"Failed to get evaluation from judge: ",
                                       "ValidationError">>)

\* the responses a caller hands to evaluate_plan: the one of test.py and a
\* degraded one
Targets ==
    { TripResponse(<<ItineraryItem(<<"9:00 AM">>, <<"Visit park">>,
                                   <<"Walk around and relax.">>)>>,
                   Some(WeatherInfo(<<"Sunny">>, 280, <<"Clear sky">>)),
                   LeadSentence),
      TripResponse(FallbackItinerary, None, LeadSentence \o ApologyClause) }

Init ==
    /\ GEMINI_API_KEY \in {"YOUR_GEMINI_API_KEY", "gemini-key"}
    /\ WEATHER_API_KEY \in {"YOUR_WEATHER_API_KEY", "weather-key"}
    /\ pc = "idle"
    /\ endpoint = ""
    /\ request = <<>>
    /\ target = <<>>
    /\ gen = NoCall
    /\ wx = NoGet
    /\ generated = NotGenerated
    /\ lookup = NotLookedUp
    /\ reply = NoReply
    /\ prevFailed = NoFailed

\* a plan_trip that issues both remote calls before it suspends
PlanTripBeginGather(p) ==
    /\ pc = "idle"
    /\ endpoint' = "plan"
    /\ request' = p
    /\ IF GEMINI_API_KEY = "YOUR_GEMINI_API_KEY"
       THEN /\ generated' = [state |-> "raised", itinerary |-> <<>>]
            /\ reply' = HTTPException(500, <<"Gemini API key not configured.">>)
            /\ pc' = "responded"
            /\ UNCHANGED <<gen, wx>>
       ELSE /\ gen' = [state |-> "inflight", exc |-> "", text |-> <<>>]
            /\ wx' = IF WEATHER_API_KEY = "YOUR_WEATHER_API_KEY" THEN wx
                     ELSE [state |-> "inflight", exc |-> "", status |-> 0, body |-> <<>>]
            /\ pc' = "gen_await"
            /\ UNCHANGED <<generated, reply>>
    /\ UNCHANGED <<GEMINI_API_KEY, WEATHER_API_KEY, target, lookup, prevFailed>>

\* plan_trip up to its first suspension: generate_itinerary raises at once
\* without a credential, else it awaits generate_content_async
PlanTripBegin(p) ==
    /\ pc = "idle"
    /\ endpoint' = "plan"
    /\ request' = p
    /\ IF ~GeminiConfigured
       THEN /\ generated' = [state |-> "raised", itinerary |-> <<>>]
            /\ reply' = HTTPException(500, <<"Gemini API key not configured.">>)
            /\ pc' = "responded"
            /\ gen' = gen
       ELSE /\ gen' = [state |-> "inflight", exc |-> "", text |-> <<>>]
            /\ pc' = "gen_await"
            /\ UNCHANGED <<generated, reply>>
    /\ UNCHANGED <<GEMINI_API_KEY, WEATHER_API_KEY, target, wx, lookup, prevFailed>>

\* generate_content_async completes with outcome o: generate_itinerary
\* returns, then plan_trip calls get_weather_forecast, which returns None at
\* once without a credential and else awaits client.get
GenerateReturns(o) ==
    /\ pc = "gen_await"
    /\ endpoint = "plan"
    /\ gen' = [state |-> "done", exc |-> o.exc, text |-> o.text]
    /\ generated' = [state |-> "returned", itinerary |-> GenerateItineraryResult(o)]
    /\ IF ~WeatherConfigured
       THEN /\ lookup' = [state |-> "returned", exc |-> "", weather |-> None]
            /\ reply' = PlanTripReturn(GenerateItineraryResult(o), None)
            /\ pc' = "responded"
            /\ wx' = wx
       ELSE /\ wx' = [state |-> "inflight", exc |-> "", status |-> 0, body |-> <<>>]
            /\ pc' = "wx_await"
            /\ UNCHANGED <<lookup, reply>>
    /\ UNCHANGED <<GEMINI_API_KEY, WEATHER_API_KEY, endpoint, request, target, prevFailed>>

\* client.get completes with outcome o: get_weather_forecast returns or
\* raises, and plan_trip builds its response
WeatherReturns(o) ==
    /\ pc = "wx_await"
    /\ wx' = [state |-> "done", exc |-> o.exc, status |-> o.status, body |-> o.body]
    /\ LET r == WeatherAfterGet(o)
       IN  IF r.exc # ""
           THEN /\ lookup' = [state |-> "raised", exc |-> r.exc, weather |-> None]
                /\ reply' = Unhandled(r.exc)
           ELSE /\ lookup' = [state |-> "returned", exc |-> "", weather |-> r.weather]
                /\ reply' = PlanTripReturn(generated.itinerary, r.weather)
    /\ pc' = "responded"
    /\ UNCHANGED <<GEMINI_API_KEY, WEATHER_API_KEY, endpoint, request, target, gen,
                   generated, prevFailed>>

\* evaluate_plan up to its first suspension
EvaluatePlanBegin(p, r) ==
    /\ pc = "idle"
    /\ endpoint' = "evaluate"
    /\ request' = p
    /\ target' = <<r>>
    /\ IF ~GeminiConfigured
       THEN /\ reply' = HTTPException(500,
                            <<"Gemini API key not configured for evaluation.">>)
            /\ pc' = "responded"
            /\ gen' = gen
       ELSE /\ gen' = [state |-> "inflight", exc |-> "", text |-> <<>>]
            /\ pc' = "judge_await"
            /\ reply' = reply
    /\ UNCHANGED <<GEMINI_API_KEY, WEATHER_API_KEY, wx, generated, lookup, prevFailed>>

\* the judge's generate_content_async completes with outcome o
JudgeReturns(o) ==
    /\ pc = "judge_await"
    /\ gen' = [state |-> "done", exc |-> o.exc, text |-> o.text]
    /\ reply' = EvaluatePlanResult(o)
    /\ pc' = "responded"
    /\ UNCHANGED <<GEMINI_API_KEY, WEATHER_API_KEY, endpoint, request, target, wx,
                   generated, lookup, prevFailed>>

\* whether the generation capability of the planning request that stands at
\* "responded" was unconfigured or raised
FailedMode ==
    IF generated.state = "raised" THEN "unconfigured"
    ELSE IF gen.state = "done" /\ gen.exc # "" THEN "error"
    ELSE ""

\* the reply goes out; nothing of the request is kept by the service
Respond ==
    /\ pc = "responded"
    /\ prevFailed' =
         IF endpoint = "plan" /\ FailedMode # ""
         THEN [valid |-> TRUE, prompt |-> request, mode |-> FailedMode,
               raised |-> generated.state = "raised",
               itinerary |-> generated.itinerary]
         ELSE prevFailed
    /\ pc' = "idle"
    /\ endpoint' = ""
    /\ request' = <<>>
    /\ target' = <<>>
    /\ gen' = NoCall
    /\ wx' = NoGet
    /\ generated' = NotGenerated
    /\ lookup' = NotLookedUp
    /\ reply' = NoReply
    /\ UNCHANGED <<GEMINI_API_KEY, WEATHER_API_KEY>>

Next ==
    \/ \E p \in Prompts : PlanTripBegin(p)
    \/ \E o \in GenOutcomes : GenerateReturns(o)
    \/ \E o \in WeatherOutcomes : WeatherReturns(o)
    \/ \E p \in Prompts, r \in Targets : EvaluatePlanBegin(p, r)
    \/ \E o \in JudgeOutcomes : JudgeReturns(o)
    \/ Respond

Spec == Init /\ [][Next]_vars

TypeOK ==
    /\ pc \in {"idle", "gen_await", "wx_await", "judge_await", "responded"}
    /\ endpoint \in {"", "plan", "evaluate"}
    /\ request \in Prompts
    /\ reply.status \in {0, 200, 500}

\* the service with a generation credential in its environment
InitGeminiConfigured == Init /\ GEMINI_API_KEY # "YOUR_GEMINI_API_KEY"

SpecGeminiConfigured == InitGeminiConfigured /\ [][Next]_vars

\* ------------------------------------------------------ properties
\* a planning request whose reply is ready
PlanDone == pc = "responded" /\ endpoint = "plan"

\* an evaluation request whose reply is ready
EvaluateDone == pc = "responded" /\ endpoint = "evaluate"

\* whether text s holds the text pat somewhere
Contains(s, pat) == \E i \in 1..Len(s) : IsPrefix(pat, SubSeq(s, i, Len(s)))

\* the time and activity of the four canonical fallback entries
CanonicalFour ==
    << <<"9:00 AM", "Morning Exploration">>, <<"1:00 PM", "Lunch">>,
       <<"3:00 PM", "Afternoon Activity">>, <<"7:00 PM", "Dinner">> >>

\* whether an itinerary is the canonical four-entry fallback
IsCanonicalFallback(it) ==
    /\ Len(it) = Len(CanonicalFour)
    /\ \A i \in 1..Len(it) :
          /\ it[i].time = <<CanonicalFour[i][1]>>
          /\ it[i].activity = <<CanonicalFour[i][2]>>
          /\ it[i].description # <<>>

NotConfiguredDetails ==
    { <<"Gemini API key not configured.">>,
      <<"Gemini API key not configured for evaluation.">> }

\* C1: every planning request, whatever the generation and weather
\* capabilities do, is answered with a TripResponse whose itinerary has at
\* least one item and whose agent_message is present; it never ends in a
\* failure or an empty itinerary.
C1_PlanNeverEmptyNorFails ==
    PlanDone =>
        /\ reply.status = 200
        /\ reply.plan # <<>>
        /\ Len(reply.plan[1].itinerary) >= 1
        /\ reply.plan[1].agent_message # <<>>

\* C2: in every TripResponse of plan-a-trip the agent_message starts with
\* the lead sentence and holds the apology clause exactly when weather is
\* absent; with weather present the message is the lead sentence alone.
C2_ApologyIffWeatherAbsent ==
    (PlanDone /\ reply.plan # <<>>) =>
        LET r == reply.plan[1]
        IN  /\ IsPrefix(LeadSentence, r.agent_message)
            /\ Contains(r.agent_message, ApologyClause) <=> (r.weather = None)
            /\ r.weather = None => r.agent_message = LeadSentence \o ApologyClause
            /\ r.weather # None => r.agent_message = LeadSentence

\* a TripResponse with weather went out
C2_Witness == PlanDone /\ reply.plan # <<>> /\ reply.plan[1].weather # None

\* whether a failure detail speaks of the evaluation
MentionsEvaluation(detail) ==
    \E i \in 1..Len(detail) : detail[i] = "Failed to get evaluation from judge: "

\* the judge's call raised, or its text is no JSON or no EvaluationResponse
JudgeFailed ==
    /\ EvaluateDone
    /\ gen.state = "done"
    /\ \/ gen.exc # ""
       \/ ~ParseJson(gen.text).ok
       \/ ~ValidateEvaluationJson(gen.text).ok

\* C3: evaluate-a-plan has no fallback: when the judge's call raises or its
\* text is no JSON or does not validate as an EvaluationResponse, the caller
\* gets a failure whose detail mentions the evaluation and no
\* EvaluationResponse.
C3_JudgeFailureSurfaces ==
    JudgeFailed =>
        /\ reply.status = 500
        /\ reply.evaluation = <<>>
        /\ MentionsEvaluation(reply.detail)

\* the judge answered with text that is no JSON and the caller got a failure
C3_Witness ==
    JudgeFailed /\ gen.exc = "" /\ ~ParseJson(gen.text).ok /\ reply.status = 500

FiveNames == {"Relevance", "Clarity", "Helpfulness", "Fallback Handling", "Tone"}

\* C4: every EvaluationResponse returned as a success has overall_score in
\* [1,5], a non-empty criteria list, every score an integer in [1,5] and
\* exactly the five fixed criterion names.
C4_EvaluationWellFormed ==
    (EvaluateDone /\ reply.evaluation # <<>>) =>
        LET e == reply.evaluation[1]
        IN  /\ e.overall_score >= 10 * ScoreMin
            /\ e.overall_score <= 10 * ScoreMax
            /\ e.criteria # <<>>
            /\ \A i \in 1..Len(e.criteria) : e.criteria[i].score \in ScoreMin..ScoreMax
            /\ Len(e.criteria) = Cardinality(FiveNames)
            /\ {e.criteria[i].criterion : i \in 1..Len(e.criteria)}
                 = {<<n>> : n \in FiveNames}

\* C5: the weather lookup is total: whatever the provider does, it returns a
\* WeatherInfo or absent, and no exception leaves it.
C5_WeatherLookupTotal ==
    /\ lookup.state # "raised"
    /\ wx.state = "done" => lookup.state = "returned"

\* whether an itinerary has a code-fence marker inside a field
HasFenceInside(v) ==
    \E i \in 1..Len(v) :
        \/ Contains(v[i].time, Fence)
        \/ Contains(v[i].activity, Fence)
        \/ Contains(v[i].description, Fence)

\* the generation call of a planning request has completed
GenerationDone == endpoint = "plan" /\ gen.state = "done"

\* C6: generation output is validated or replaced: the itinerary of the
\* generator is the items of the cleaned text, in order, when that text
\* validates, and the canonical four-entry fallback when the capability
\* raised or the text does not validate; no exception leaves the generator.
C6_ValidatedOrReplaced ==
    GenerationDone =>
        /\ generated.state = "returned"
        /\ IF gen.exc = "" /\ ValidateItineraryJson(CleanResponse(gen.text)).ok
           THEN generated.itinerary
                  = ValidateItineraryJson(CleanResponse(gen.text)).itinerary
           ELSE IsCanonicalFallback(generated.itinerary)
        /\ \A v \in ItineraryValues :
              (/\ ~HasFenceInside(v)
               /\ gen.exc = ""
               /\ gen.text \in {SerializeItinerary(v), FencedJson(SerializeItinerary(v)),
                                Fenced(SerializeItinerary(v))})
              => generated.itinerary = v
        /\ (gen.exc = "" /\ ~ParseJson(CleanResponse(gen.text)).ok)
              => IsCanonicalFallback(generated.itinerary)

\* a fenced document of two different items came back as those items
C6_Witness ==
    /\ GenerationDone
    /\ gen.exc = ""
    /\ IsPrefix(FenceJson, gen.text)
    /\ Len(generated.itinerary) = 2
    /\ generated.itinerary[1] # generated.itinerary[2]
    /\ ~IsCanonicalFallback(generated.itinerary)

\* two planning calls with the same prompt, the capability unconfigured or
\* raising in both
TwoFailedCalls ==
    /\ PlanDone
    /\ FailedMode # ""
    /\ prevFailed.valid
    /\ prevFailed.prompt = request

\* C7 as stated: both calls yield the same canonical four-entry fallback,
\* the capability unconfigured or raising.
C7_FallbackIdempotent ==
    TwoFailedCalls =>
        /\ generated.state = "returned"
        /\ ~prevFailed.raised
        /\ generated.itinerary = prevFailed.itinerary
        /\ IsCanonicalFallback(generated.itinerary)

\* C7 amended: with the capability raising, both calls yield the same
\* canonical four-entry fallback whatever the prompt; with the capability
\* unconfigured, both calls fail with the not-configured error and yield no
\* itinerary.
C7_FallbackIdempotentWhenRaising ==
    TwoFailedCalls =>
        IF GEMINI_API_KEY # "YOUR_GEMINI_API_KEY"
        THEN /\ generated.state = "returned"
             /\ ~prevFailed.raised
             /\ generated.itinerary = prevFailed.itinerary
             /\ IsCanonicalFallback(generated.itinerary)
        ELSE /\ generated.state = "raised"
             /\ prevFailed.raised
             /\ generated.itinerary = <<>>
             /\ prevFailed.itinerary = <<>>
             /\ reply.status = 500
             /\ reply.detail \in NotConfiguredDetails

\* two calls with the same prompt, the capability raising in both
C7_Witness ==
    /\ TwoFailedCalls
    /\ FailedMode = "error"
    /\ prevFailed.mode = "error"
    /\ request # <<>>

\* C8: without a generation credential both endpoints end in a
\* not-configured failure and the generation capability is never invoked;
\* that failure differs from what the same endpoint answers when the
\* capability raises (the fallback itinerary for planning, the
\* failed-to-get-evaluation failure for judging).
C8_NotConfiguredIsDistinct ==
    /\ GEMINI_API_KEY = "YOUR_GEMINI_API_KEY" =>
          /\ gen.state = "none"
          /\ pc \in {"idle", "responded"}
          /\ pc = "responded" =>
                /\ reply.status = 500
                /\ reply.plan = <<>> /\ reply.evaluation = <<>>
                /\ reply.detail =
                     IF endpoint = "plan" THEN <<"Gemini API key not configured.">>
                     ELSE <<"Gemini API key not configured for evaluation.">>
    /\ (pc = "responded" /\ gen.state = "done" /\ gen.exc # "") =>
          /\ reply.detail \notin NotConfiguredDetails
          /\ endpoint = "plan" =>
                /\ generated.state = "returned"
                /\ IsCanonicalFallback(generated.itinerary)
          /\ endpoint = "evaluate" =>
                /\ reply.status = 500
                /\ MentionsEvaluation(reply.detail)

\* a planning request was refused for want of the credential
C8_Witness ==
    /\ PlanDone
    /\ GEMINI_API_KEY = "YOUR_GEMINI_API_KEY"
    /\ reply.detail = <<"Gemini API key not configured.">>

\* C9 as stated: the weather lookup is issued without waiting for the
\* itinerary generation, and the response is built only after both calls
\* have completed.
C9_FanOutFanIn ==
    /\ (endpoint = "plan" /\ gen.state = "inflight"
          /\ WEATHER_API_KEY # "YOUR_WEATHER_API_KEY")
       => wx.state \in {"inflight", "done"}
    /\ reply.plan # <<>> =>
          /\ gen.state = "done"
          /\ WEATHER_API_KEY # "YOUR_WEATHER_API_KEY" => wx.state = "done"

\* C9 amended: the two remote calls of a planning request are issued one
\* after the other: the weather lookup only once the itinerary generation
\* has completed, so that they are never in flight together; the response is
\* built only after both have completed and is made of their two results.
C9_Sequential ==
    /\ ~(gen.state = "inflight" /\ wx.state = "inflight")
    /\ wx.state # "none" => gen.state = "done"
    /\ reply.plan # <<>> =>
          /\ gen.state = "done"
          /\ WEATHER_API_KEY # "YOUR_WEATHER_API_KEY" => wx.state = "done"
          /\ reply.plan[1].itinerary = generated.itinerary
          /\ reply.plan[1].weather = lookup.weather

\* the weather request is in flight, the generation has completed
C9_Witness == pc = "wx_await" /\ wx.state = "inflight" /\ gen.state = "done"

\* C10: an itinerary, fence markers inside its fields or not, serialized and
\* put through the generator's clean-then-validate step comes back equal;
\* a text that lacks a required field yields no partial value.
C10_RoundTrip ==
    GenerationDone =>
        /\ \A v \in ItineraryValues :
              (gen.exc = "" /\ gen.text = SerializeItinerary(v))
              => (generated.state = "returned" /\ generated.itinerary = v)
        /\ (gen.exc = "" /\ gen.text \in MissingFieldTexts)
              => IsCanonicalFallback(generated.itinerary)

====
